---- MODULE Spec2Model ----
(***************************************************************************)
(* State-machine model of the topic-processing pipeline:                   *)
(*   - SystemIntegrator (src/system_integrator.py): policy check, routing, *)
(*     handlers, execution log and audit file;                             *)
(*   - EnhancedOrchestrator (src/enhanced_orchestrator.py): the model      *)
(*     caller with retry/backoff, the integration-request scanner and the  *)
(*     phase loop;                                                         *)
(*   - BaseOrchestrator (src/base_orchestrator.py): the model caller and   *)
(*     the phase loop with narrowed except clauses;                        *)
(*   - validate_topic (src/utils.py).                                      *)
(* Timestamps (datetime.now) and logger output are left out: no modelled   *)
(* decision reads them.  The audit file is assumed writable.               *)
(***************************************************************************)
EXTENDS Integers, Sequences, FiniteSets, TLC

VARIABLES
    enabled_integrations, \* SystemIntegrator.enabled_integrations (dict type -> bool)
    execution_log,        \* SystemIntegrator.execution_log (list of entries)
    audit_file,           \* lines of logs/ai_integrations.log
    world,                \* what handlers act on: files, dirs, .env file, processes, http
    last,                 \* the last completed top-level call and what it produced
    impl,                 \* which orchestrator runs: "enhanced" or "base"
    call,                 \* the model call in progress (call_model / call_model_with_integration)
    run                   \* the run in progress (process_topic / process_topic_enhanced)

vars == <<enabled_integrations, execution_log, audit_file, world, last, impl, call, run>>

(***************************************************************************)
(* Bounds of the model.                                                    *)
(***************************************************************************)
MaxLog == 2          \* longest execution log explored
MaxRetriesArg == 3   \* largest max_retries argument of a direct model call
MaxLines == 5        \* longest response text (in lines) given to the scanner
MaxPhases == 2       \* phases of a run: the first MaxPhases of the orchestrator's list
MaxDispatches == 3   \* longest series of dispatches a caller makes in a row
MaxEffects == 2      \* most processes and http requests started in one behaviour
MaxContent == 3      \* longest file content, in characters
MaxRuns == 3         \* runs of characters in a topic given to validate_topic

None == "None"

Get(d, k, default) == IF k \in DOMAIN d THEN d[k] ELSE default

Last(s) == s[Len(s)]

(***************************************************************************)
(* Python exception classes met in the modelled code, each with the set of *)
(* classes an except clause matches it by.  IOError is OSError.            *)
(***************************************************************************)
Ancestors(e) ==
    {e, "Exception"} \cup
    CASE e = "JSONDecodeError"   -> {"ValueError"}
      [] e = "FileNotFoundError" -> {"OSError"}
      [] e = "RequestException"  -> {"OSError"}
      [] e = "TemplateNotFound"  -> {"OSError"}
      [] OTHER                   -> {}

\* except (c1, c2, ...) as e: whether the clause catches an exception of class e
Catches(classes, e) == (Ancestors(e) \cap classes) # {}

Raise(e, msg, w) == [kind |-> "raise", exc |-> e, msg |-> msg, w |-> w]
Return(v, w)     == [kind |-> "return", value |-> v, w |-> w]

(***************************************************************************)
(* The world handlers act on.                                              *)
(***************************************************************************)
NoFile == <<"<absent>">>

Paths == {"a/b/c.txt", "app.py"}

\* os.path.dirname
DirName(path) ==
    CASE path = "a/b/c.txt" -> "a/b"
      [] path = "app.py"    -> ""
      [] OTHER              -> ""

\* the directories os.makedirs(d, exist_ok=True) leaves in place
DirsUpTo(d) ==
    CASE d = "a/b" -> {"a", "a/b"}
      [] d = "a"   -> {"a"}
      [] OTHER     -> {d}

EmptyWorld ==
    [files    |-> [p \in Paths |-> NoFile],
     dirs     |-> {},
     env_file |-> [exists |-> FALSE, lines |-> <<>>],
     effects  |-> <<>>]

Effect(w, e) == [w EXCEPT !.effects = Append(@, e)]

(***************************************************************************)
(* File-system operations.                                                 *)
(***************************************************************************)
Exists(w, path) == w.files[path] # NoFile \/ path \in w.dirs

\* os.makedirs(d, exist_ok=True): "ok", or the OSError subclass it raises
MakeDirs(w, d) ==
    IF d = "" THEN "FileNotFoundError"
    ELSE IF d \in Paths /\ w.files[d] # NoFile THEN "OSError"
    ELSE "ok"

\* open(path, 'w') and write
OpenWrite(w, path, env) ==
    IF path \in w.dirs \/ env.io = "fail" THEN "OSError" ELSE "ok"

_create_file(path, content, w, env) ==
    LET md == MakeDirs(w, DirName(path)) IN
    IF md # "ok"
    THEN Raise("OSError", <<"create_failed", path, md>>, w)
    ELSE LET w1 == [w EXCEPT !.dirs = @ \cup DirsUpTo(DirName(path))] IN
         IF OpenWrite(w1, path, env) # "ok"
         THEN Raise("OSError", <<"create_failed", path, "OSError">>, w1)
         ELSE Return([success |-> TRUE, message |-> <<"created_file", path>>],
                     [w1 EXCEPT !.files[path] = content])

_delete_file(path, w, env) ==
    IF w.files[path] = NoFile \/ env.io = "fail"
    THEN Raise("OSError", <<"delete_failed", path>>, w)
    ELSE Return([success |-> TRUE, message |-> <<"deleted_file", path>>],
                [w EXCEPT !.files[path] = NoFile])

_create_directory(path, w, env) ==
    IF MakeDirs(w, path) # "ok" \/ env.io = "fail"
    THEN Raise("OSError", <<"mkdir_failed", path>>, w)
    ELSE Return([success |-> TRUE, message |-> <<"created_directory", path>>],
                [w EXCEPT !.dirs = @ \cup DirsUpTo(path)])

\* whether sequence old occurs in s at position i
MatchAt(s, old, i) ==
    /\ i + Len(old) - 1 <= Len(s)
    /\ \A j \in 1..Len(old) : s[i + j - 1] = old[j]

RECURSIVE ReplaceFrom(_, _, _, _)
\* str.replace(old, new) on s from position i on, old non-empty
ReplaceFrom(s, old, new, i) ==
    IF i > Len(s) THEN <<>>
    ELSE IF MatchAt(s, old, i)
         THEN new \o ReplaceFrom(s, old, new, i + Len(old))
         ELSE <<s[i]>> \o ReplaceFrom(s, old, new, i + 1)

RECURSIVE Interleave(_, _, _)
Interleave(s, new, i) ==
    IF i > Len(s) THEN new ELSE new \o <<s[i]>> \o Interleave(s, new, i + 1)

\* str.replace: an empty old inserts new before every character and at the end
StrReplace(s, old, new) ==
    IF old = <<>> THEN Interleave(s, new, 1) ELSE ReplaceFrom(s, old, new, 1)

RECURSIVE ApplyReplaceMap(_, _, _)
\* for old, new in changes['replace'].items(): in the mapping's order
ApplyReplaceMap(content, pairs, i) ==
    IF i > Len(pairs) THEN content
    ELSE ApplyReplaceMap(StrReplace(content, pairs[i][1], pairs[i][2]), pairs, i + 1)

ApplyChanges(content, changes) ==
    LET c1 == IF "replace" \in DOMAIN changes
              THEN ApplyReplaceMap(content, changes.replace, 1) ELSE content
        c2 == IF "append" \in DOMAIN changes THEN c1 \o changes.append ELSE c1
    IN  IF "prepend" \in DOMAIN changes THEN changes.prepend \o c2 ELSE c2

_modify_file(path, changes, w, env) ==
    IF ~Exists(w, path)
    THEN Raise("OSError", <<"modify_failed", path, "not_found">>, w)
    ELSE IF path \in w.dirs \/ env.io = "fail"
    THEN Raise("OSError", <<"modify_failed", path, "OSError">>, w)
    ELSE Return([success |-> TRUE, message |-> <<"modified_file", path>>],
                [w EXCEPT !.files[path] = ApplyChanges(w.files[path], changes)])

KeyError(k, w) == Raise("KeyError", <<"key", k>>, w)

_handle_file_operations(params, w, env) ==
    LET operation == Get(params, "operation", None) IN
    IF operation = "create_file" THEN
        IF "path" \notin DOMAIN params THEN KeyError("path", w)
        ELSE IF "content" \notin DOMAIN params THEN KeyError("content", w)
        ELSE _create_file(params.path, params.content, w, env)
    ELSE IF operation = "modify_file" THEN
        IF "path" \notin DOMAIN params THEN KeyError("path", w)
        ELSE IF "changes" \notin DOMAIN params THEN KeyError("changes", w)
        ELSE _modify_file(params.path, params.changes, w, env)
    ELSE IF operation = "delete_file" THEN
        IF "path" \notin DOMAIN params THEN KeyError("path", w)
        ELSE _delete_file(params.path, w, env)
    ELSE IF operation = "create_directory" THEN
        IF "path" \notin DOMAIN params THEN KeyError("path", w)
        ELSE _create_directory(params.path, w, env)
    ELSE Raise("ValueError", <<"unknown_file_operation", operation>>, w)

(***************************************************************************)
(* System commands and package management.                                 *)
(***************************************************************************)
\* subprocess.run(..., check=True): a non-zero return code raises
_handle_system_commands(params, w, env) ==
    IF "command" \notin DOMAIN params THEN KeyError("command", w)
    ELSE IF env.io = "fail"
    THEN Raise("FileNotFoundError", <<"cwd", Get(params, "working_dir", ".")>>, w)
    ELSE LET w1 == Effect(w, <<"process", params.command>>) IN
         IF env.rc # 0
         THEN Raise("CalledProcessError", <<"exit", env.rc>>, w1)
         ELSE Return([success |-> env.rc = 0, stdout |-> <<"out">>, stderr |-> <<>>,
                      return_code |-> env.rc], w1)

_install_package(package, w, env) ==
    IF env.io = "fail" THEN Raise("FileNotFoundError", <<"pip">>, w)
    ELSE LET w1 == Effect(w, <<"process", <<"pip install", package>>>>) IN
         IF env.rc # 0
         THEN Raise("CalledProcessError", <<"exit", env.rc>>, w1)
         ELSE Return([success |-> env.rc = 0, message |-> <<"install", package>>,
                      output |-> <<"out">>, error |-> <<>>], w1)

_uninstall_package(package, w, env) ==
    _handle_system_commands([command |-> <<"pip uninstall -y", package>>], w, env)

_update_packages(w, env) ==
    _handle_system_commands([command |-> <<"pip install --upgrade -r requirements.txt">>], w, env)

_handle_package_operations(params, w, env) ==
    LET operation == Get(params, "operation", None) IN
    IF operation = "install" THEN
        IF "package" \notin DOMAIN params THEN KeyError("package", w)
        ELSE _install_package(params.package, w, env)
    ELSE IF operation = "uninstall" THEN
        IF "package" \notin DOMAIN params THEN KeyError("package", w)
        ELSE _uninstall_package(params.package, w, env)
    ELSE IF operation = "update" THEN _update_packages(w, env)
    ELSE Raise("ValueError", <<"unknown_package_operation", operation>>, w)

(***************************************************************************)
(* Database, deployment and API calls.                                     *)
(***************************************************************************)
_handle_database_operations(params, w, env) ==
    LET operation == Get(params, "operation", None) IN
    IF operation = "execute_query" THEN
        IF "query" \notin DOMAIN params THEN KeyError("query", w)
        ELSE Return([success |-> FALSE, error |-> <<"Database connection not implemented">>], w)
    ELSE IF operation = "backup"
    THEN Return([success |-> FALSE, error |-> <<"Database backup not implemented">>], w)
    ELSE IF operation = "migrate"
    THEN Return([success |-> FALSE, error |-> <<"Database migration not implemented">>], w)
    ELSE Raise("ValueError", <<"unknown_database_operation", operation>>, w)

_handle_api_calls(params, w, env) ==
    IF "url" \notin DOMAIN params THEN KeyError("url", w)
    ELSE IF env.io = "fail" THEN Raise("RequestException", <<"request", params.url>>, w)
    ELSE Return([success |-> TRUE, status_code |-> 200, response |-> <<"body">>],
                Effect(w, <<"http", Get(params, "method", "GET"), params.url>>))

_handle_deployment(params, w, env) ==
    LET platform == Get(params, "platform", "heroku") IN
    IF platform = "heroku"
    THEN Return([success |-> FALSE, error |-> <<"Heroku deployment not implemented">>], w)
    ELSE IF platform = "aws"
    THEN Return([success |-> FALSE, error |-> <<"AWS deployment not implemented">>], w)
    ELSE IF platform = "docker"
    THEN Return([success |-> FALSE, error |-> <<"Docker deployment not implemented">>], w)
    ELSE Raise("ValueError", <<"unsupported_platform", platform>>, w)

(***************************************************************************)
(* Environment variables: the .env file is a list of lines, each line the  *)
(* sequence of its characters without the newline that ends it.            *)
(***************************************************************************)
StartsWith(s, prefix) ==
    Len(prefix) <= Len(s) /\ SubSeq(s, 1, Len(prefix)) = prefix

Contains(s, c) == \E i \in 1..Len(s) : s[i] = c

RECURSIVE StrLStrip(_)
StrLStrip(s) == IF s # <<>> /\ Head(s) = " " THEN StrLStrip(Tail(s)) ELSE s

RECURSIVE StrRStrip(_)
StrRStrip(s) ==
    IF s # <<>> /\ s[Len(s)] = " " THEN StrRStrip(SubSeq(s, 1, Len(s) - 1)) ELSE s

\* str.strip(): the newline at the end of a line goes with the blanks
StrStrip(s) == StrRStrip(StrLStrip(s))

\* s.split('=', 1) of a string that holds "=": the parts around the first one
SplitEq(s) ==
    LET i == CHOOSE j \in 1..Len(s) : s[j] = "=" /\ \A h \in 1..(j - 1) : s[h] # "=" IN
    <<SubSeq(s, 1, i - 1), SubSeq(s, i + 1, Len(s))>>

\* f'{k}={v}\n'
KvLine(k, v) == k \o <<"=">> \o v

RECURSIVE OrderedPut(_, _, _, _)
\* env_vars[k] = v on an insertion-ordered dict held as a list of <<k, v>>
OrderedPut(pairs, k, v, i) ==
    IF i > Len(pairs) THEN Append(pairs, <<k, v>>)
    ELSE IF pairs[i][1] = k THEN [pairs EXCEPT ![i] = <<k, v>>]
    ELSE OrderedPut(pairs, k, v, i + 1)

\* one iteration of the loop over the file's lines
ReadEnvLine(line, acc) ==
    IF Contains(line, "=") /\ ~StartsWith(line, <<"#">>)
    THEN OrderedPut(acc, SplitEq(StrStrip(line))[1], SplitEq(StrStrip(line))[2], 1)
    ELSE acc

RECURSIVE ReadEnvVars(_, _, _)
\* the loop over the file's lines: only lines with "=" that are no comment
ReadEnvVars(lines, i, acc) ==
    IF i > Len(lines) THEN acc
    ELSE ReadEnvVars(lines, i + 1, ReadEnvLine(lines[i], acc))

\* env_vars is the dict read from the file with key set; the file is written
\* from it, one line per item
_set_env_variable(key, value, w, env) ==
    LET env_vars == OrderedPut(ReadEnvVars(w.env_file.lines, 1, <<>>), key, value, 1) IN
    IF env.io = "fail" THEN Raise("OSError", <<"env_file">>, w)
    ELSE Return([success |-> TRUE, message |-> <<"set_env", key>>],
                [w EXCEPT !.env_file =
                    [exists |-> TRUE,
                     lines  |-> [i \in 1..Len(env_vars) |->
                                    KvLine(env_vars[i][1], env_vars[i][2])]]])

_get_env_variable(key, w, env) ==
    Return([success |-> env.getenv # None, key |-> key, value |-> env.getenv], w)

_delete_env_variable(key, w, env) ==
    IF w.env_file.exists /\ env.io = "fail" THEN Raise("OSError", <<"env_file">>, w)
    ELSE Return([success |-> TRUE, message |-> <<"deleted_env", key>>],
                IF w.env_file.exists
                THEN [w EXCEPT !.env_file.lines =
                        SelectSeq(@, LAMBDA l : ~StartsWith(l, key \o <<"=">>))]
                ELSE w)

_handle_env_operations(params, w, env) ==
    LET operation == Get(params, "operation", None) IN
    IF operation = "set" THEN
        IF "key" \notin DOMAIN params THEN KeyError("key", w)
        ELSE IF "value" \notin DOMAIN params THEN KeyError("value", w)
        ELSE _set_env_variable(params.key, params.value, w, env)
    ELSE IF operation = "get" THEN
        IF "key" \notin DOMAIN params THEN KeyError("key", w)
        ELSE _get_env_variable(params.key, w, env)
    ELSE IF operation = "delete" THEN
        IF "key" \notin DOMAIN params THEN KeyError("key", w)
        ELSE _delete_env_variable(params.key, w, env)
    ELSE Raise("ValueError", <<"unknown_env_operation", operation>>, w)

(***************************************************************************)
(* Routing.                                                                *)
(***************************************************************************)
\* the handlers dict literal of _route_request, in source order
HandlerTable ==
    << <<"file_system",           "_handle_file_operations">>,
       <<"git_operations",        "_handle_git_operations">>,
       <<"package_management",    "_handle_package_operations">>,
       <<"database_operations",   "_handle_database_operations">>,
       <<"api_calls",             "_handle_api_calls">>,
       <<"deployment",            "_handle_deployment">>,
       <<"system_commands",       "_handle_system_commands">>,
       <<"environment_variables", "_handle_env_operations">> >>

KnownTypes == {HandlerTable[i][1] : i \in DOMAIN HandlerTable}

\* the _handle_* methods class SystemIntegrator defines
DefinedHandlers ==
    {"_handle_file_operations", "_handle_package_operations",
     "_handle_database_operations", "_handle_api_calls", "_handle_deployment",
     "_handle_system_commands", "_handle_env_operations"}

\* entries of the dict literal whose value is an attribute the object lacks
MissingHandlers == {i \in DOMAIN HandlerTable : HandlerTable[i][2] \notin DefinedHandlers}

HandlerFor(t) ==
    IF t \in KnownTypes
    THEN HandlerTable[CHOOSE i \in DOMAIN HandlerTable : HandlerTable[i][1] = t][2]
    ELSE None

CallHandler(h, params, w, env) ==
    CASE h = "_handle_file_operations"     -> _handle_file_operations(params, w, env)
      [] h = "_handle_package_operations"  -> _handle_package_operations(params, w, env)
      [] h = "_handle_database_operations" -> _handle_database_operations(params, w, env)
      [] h = "_handle_api_calls"           -> _handle_api_calls(params, w, env)
      [] h = "_handle_deployment"          -> _handle_deployment(params, w, env)
      [] h = "_handle_system_commands"     -> _handle_system_commands(params, w, env)
      [] h = "_handle_env_operations"      -> _handle_env_operations(params, w, env)
      [] OTHER -> Raise("AttributeError", <<"no_attribute", h>>, w)

\* the handler _route_request ends up calling, None when it raises before any call
RoutedHandler(t) ==
    IF MissingHandlers # {} THEN None ELSE HandlerFor(t)

_route_request(t, params, w, env) ==
    IF MissingHandlers # {}
    THEN Raise("AttributeError",
               <<"no_attribute",
                 HandlerTable[CHOOSE i \in MissingHandlers :
                                \A j \in MissingHandlers : i <= j][2]>>, w)
    ELSE IF HandlerFor(t) = None
    THEN Raise("ValueError", <<"unknown_handler", t>>, w)
    ELSE CallHandler(HandlerFor(t), params, w, env)

(***************************************************************************)
(* Dispatch and logging.                                                   *)
(***************************************************************************)
LogEntry(t, params, result) ==
    [request_type |-> t, parameters |-> params, result |-> result]

\* json.dumps(log_entry, ensure_ascii=False) + '\n': one line of the audit file
Dumps(entry) == [line |-> "json", text |-> entry]

\* a logging that puts the new entry first
_log_execution_prepends(t, params, result, d) ==
    [d EXCEPT !.log   = <<LogEntry(t, params, result)>> \o @,
              !.audit = Append(@, Dumps(LogEntry(t, params, result)))]

\* d is the dispatcher: [enabled, log, audit, w]
_log_execution(t, params, result, d) ==
    [d EXCEPT !.log   = Append(@, LogEntry(t, params, result)),
              !.audit = Append(@, Dumps(LogEntry(t, params, result)))]

\* a policy check that lets a type absent from the policy through
PolicyAllows_absent_allowed(enabled, t) == Get(enabled, t, TRUE)

\* the policy check of execute_ai_request
PolicyAllows(enabled, t) == Get(enabled, t, FALSE)

Outcome(kind, value, exc, msg, handler, d) ==
    [kind |-> kind, value |-> value, exc |-> exc, msg |-> msg, handler |-> handler, d |-> d]

\* the except clause of execute_ai_request
DispatchCatches == {"OSError", "ValueError"}

\* the try block of execute_ai_request, r being what _route_request did in
\* dispatcher d (d already holds the world r left)
AfterRoute(t, params, r, d) ==
    IF r.kind = "return"
    THEN Outcome("return", r.value, None, <<>>, RoutedHandler(t),
                 _log_execution(t, params, r.value, d))
    ELSE IF Catches(DispatchCatches, r.exc)
    THEN Outcome("return", [success |-> FALSE, error |-> r.msg], None, <<>>,
                 RoutedHandler(t),
                 _log_execution(t, params, [success |-> FALSE, error |-> r.msg], d))
    ELSE Outcome("raise", <<>>, r.exc, r.msg, RoutedHandler(t), d)

Routed(t, params, r, d) == AfterRoute(t, params, r, [d EXCEPT !.w = r.w])

execute_ai_request(t, params, d, env) ==
    IF ~PolicyAllows(d.enabled, t)
    THEN Outcome("return", [success |-> FALSE, error |-> <<"not_enabled", t>>],
                 None, <<>>, None, d)
    ELSE Routed(t, params, _route_request(t, params, d.w, env), d)

(***************************************************************************)
(* Response text.  A line is a list of atoms, each standing for a piece of *)
(* text: "FJ" the characters ```json, "F" the characters ```, "SP" a run   *)
(* of blanks, "P1"/"P2" prose, "LB" and "RB" the braces of a JSON object,  *)
(* "KV" an object member other than integration_request, "RQ1"/"RQ2" an    *)
(* integration_request member, "NUM" a JSON number.  "NL" is the newline   *)
(* between the lines of a payload.  Prose is no JSON.                      *)
(***************************************************************************)
RequestAtoms == {"RQ1", "RQ2"}

\* the value of the integration_request member an atom stands for
RequestOf(a) ==
    CASE a = "RQ1" -> [type |-> "file_system",
                       parameters |-> [operation |-> "create_file",
                                       path |-> "a/b/c.txt", content |-> <<"h", "i">>]]
      [] a = "RQ2" -> [type |-> "quantum_ops", parameters |-> [operation |-> "entangle"]]

\* output lines: a line of text, or a line the scanner composes
TextLine(atoms)   == [t |-> "text", atoms |-> atoms, n |-> 0, ok |-> FALSE, msg |-> <<>>]
DoneLine(msg)     == [t |-> "done", atoms |-> <<>>, n |-> 0, ok |-> TRUE, msg |-> msg]
ErrorLine(msg)    == [t |-> "error", atoms |-> <<>>, n |-> 0, ok |-> FALSE, msg |-> msg]
SummaryHeader     == [t |-> "summary", atoms |-> <<>>, n |-> 0, ok |-> FALSE, msg |-> <<>>]
SummaryItem(n, ok, msg) == [t |-> "item", atoms |-> <<>>, n |-> n, ok |-> ok, msg |-> msg]

\* '```json' in line
HasJsonFence(line) == \E k \in DOMAIN line : line[k] = "FJ"

\* '```' in line
HasFence(line) == \E k \in DOMAIN line : line[k] \in {"FJ", "F"}

IsBlank(a) == a \in {"SP", "NL"}

RECURSIVE LStrip(_)
LStrip(s) == IF s # <<>> /\ IsBlank(Head(s)) THEN LStrip(Tail(s)) ELSE s

RECURSIVE RStrip(_)
RStrip(s) == IF s # <<>> /\ IsBlank(s[Len(s)]) THEN RStrip(SubSeq(s, 1, Len(s) - 1)) ELSE s

\* str.strip()
Strip(s) == RStrip(LStrip(s))

\* json.loads: blanks between tokens are skipped; an object holds at most one member here
json_loads(text) ==
    LET toks == SelectSeq(text, LAMBDA a : ~IsBlank(a)) IN
    IF toks = <<"LB", "RB">> THEN [ok |-> TRUE, type |-> "dict", member |-> None]
    ELSE IF Len(toks) = 3 /\ toks[1] = "LB" /\ toks[3] = "RB"
            /\ toks[2] \in RequestAtoms \cup {"KV"}
    THEN [ok |-> TRUE, type |-> "dict", member |-> toks[2]]
    ELSE IF toks = <<"NUM">> THEN [ok |-> TRUE, type |-> "int", member |-> None]
    ELSE [ok |-> FALSE, type |-> None, member |-> None]

RECURSIVE SplitLines(_, _)
\* the physical lines of a text holding newlines (acc is the line being read)
SplitLines(text, acc) ==
    IF text = <<>> THEN <<acc>>
    ELSE IF Head(text) = "NL" THEN <<acc>> \o SplitLines(Tail(text), <<>>)
    ELSE SplitLines(Tail(text), Append(acc, Head(text)))

TextLines(ls) == [k \in 1..Len(ls) |-> TextLine(ls[k])]

\* processed_lines entries '```json', json_content.strip(), '```' as physical lines
ReEmit(json_content) ==
    <<TextLine(<<"FJ">>)>>
    \o TextLines(SplitLines(Strip(json_content), <<>>))
    \o <<TextLine(<<"F">>)>>

RECURSIVE CollectPayload(_, _, _)
\* the inner while loop: [i, json_content] when it stops
CollectPayload(lines, i, json_content) ==
    IF i <= Len(lines) /\ ~HasFence(lines[i])
    THEN CollectPayload(lines, i + 1, json_content \o lines[i] \o <<"NL">>)
    ELSE [i |-> i, json_content |-> json_content]

_execute_integration_request(request, d, env) ==
    execute_ai_request(Get(request, "type", None), Get(request, "parameters", <<>>), d, env)

\* the line that replaces a dispatched block
OutcomeLine(result) ==
    IF result.success
    THEN IF "message" \in DOMAIN result THEN DoneLine(result.message)
         ELSE ErrorLine(<<"key", "message">>)
    ELSE IF "error" \in DOMAIN result THEN DoneLine(result.error)
         ELSE ErrorLine(<<"key", "error">>)

\* what follows the dispatch r of a request block: the result is kept and an
\* outcome line added, or the exception is caught and an error line added
AfterDispatch(r) ==
    IF r.kind = "raise"
    THEN [lines |-> <<ErrorLine(r.msg)>>, results |-> <<>>, d |-> r.d, dispatched |-> 1]
    ELSE [lines |-> <<OutcomeLine(r.value)>>, results |-> <<r.value>>,
          d |-> r.d, dispatched |-> 1]

\* the try block once the payload is parsed: [lines, results, d, dispatched]
ProcessParsed(request_data, json_content, d, env) ==
    IF ~request_data.ok
    THEN [lines |-> ReEmit(json_content), results |-> <<>>, d |-> d, dispatched |-> 0]
    ELSE IF request_data.type # "dict"
    THEN [lines |-> <<ErrorLine(<<"not_iterable", request_data.type>>)>>,
          results |-> <<>>, d |-> d, dispatched |-> 0]
    ELSE IF request_data.member \notin RequestAtoms
    THEN [lines |-> ReEmit(json_content), results |-> <<>>, d |-> d, dispatched |-> 0]
    ELSE AfterDispatch(
            _execute_integration_request(RequestOf(request_data.member), d, env))

\* the try block for one collected payload
ProcessBlock(json_content, d, env) ==
    ProcessParsed(json_loads(Strip(json_content)), json_content, d, env)

\* acc with what one block produced
AddBlock(acc, b) ==
    [lines |-> acc.lines \o b.lines, results |-> acc.results \o b.results,
     dispatched |-> acc.dispatched + b.dispatched, d |-> b.d]

AddLine(acc, line) == [acc EXCEPT !.lines = Append(@, TextLine(line))]

RECURSIVE ScanLines(_, _, _, _)
RECURSIVE ScanBlock(_, _, _, _)

\* a block was opened: c is where the inner loop stopped and what it collected
ScanBlock(lines, c, acc, env) ==
    ScanLines(lines, c.i + 1, AddBlock(acc, ProcessBlock(c.json_content, acc.d, env)), env)

\* the outer while loop of _process_integration_requests; acc.d is the dispatcher
ScanLines(lines, i, acc, env) ==
    IF i > Len(lines) THEN acc
    ELSE IF HasJsonFence(lines[i]) /\ i + 1 <= Len(lines)
    THEN ScanBlock(lines, CollectPayload(lines, i + 1, <<>>), acc, env)
    ELSE ScanLines(lines, i + 1, AddLine(acc, lines[i]), env)

SummaryMsg(result) ==
    IF "message" \in DOMAIN result THEN result.message
    ELSE IF "error" \in DOMAIN result THEN result.error
    ELSE <<"unspecified">>

\* the summary appended when integration_results is non-empty; its header starts
\* with a newline, which gives an empty line before it
Summary(results) ==
    IF results = <<>> THEN <<>>
    ELSE <<TextLine(<<>>), SummaryHeader>>
         \o [k \in 1..Len(results) |->
                SummaryItem(k, results[k].success, SummaryMsg(results[k]))]

\* response_content.split('\n') ... '\n'.join(processed_lines), on lists of lines
WithSummary(s) == [s EXCEPT !.lines = @ \o Summary(s.results)]

_process_integration_requests(lines, d, env) ==
    WithSummary(ScanLines(lines, 1,
                          [lines |-> <<>>, results |-> <<>>, dispatched |-> 0, d |-> d],
                          env))

(***************************************************************************)
(* The dispatcher as state, and the operations called on it directly.      *)
(***************************************************************************)
Dispatcher ==
    [enabled |-> enabled_integrations, log |-> execution_log,
     audit |-> audit_file, w |-> world]

SetDispatcher(d) ==
    /\ enabled_integrations' = d.enabled
    /\ execution_log' = d.log
    /\ audit_file' = d.audit
    /\ world' = d.w

\* a policy that starts with deployment switched off
_load_enabled_integrations_deployment_off == [t \in KnownTypes |-> t # "deployment"]

\* _load_enabled_integrations
_load_enabled_integrations == [t \in KnownTypes |-> TRUE]

\* d[k] = v on a dict
DictSet(d, k, v) == [x \in DOMAIN d \cup {k} |-> IF x = k THEN v ELSE d[x]]

\* inputs explored
PolicyInputs == {"file_system", "quantum_ops"}
TypeInputs == {"file_system", "system_commands", "git_operations", "quantum_ops"}
ParamInputs ==
    {[operation |-> "create_file", path |-> "a/b/c.txt", content |-> <<"h", "i">>],
     [operation |-> "create_file"],
     [operation |-> "modify_file", path |-> "a/b/c.txt", changes |-> [append |-> <<"!">>]],
     [operation |-> "frobnicate"],
     [command |-> <<"ls">>]}
\* what the environment decides during one handler call
EnvInputs == {[io |-> "ok", rc |-> 0, getenv |-> "v"],
              [io |-> "fail", rc |-> 0, getenv |-> None],
              [io |-> "ok", rc |-> 1, getenv |-> "v"]}

NoCall == [pc |-> "idle"]
NoRun == [pc |-> "idle"]
NoLast == [op |-> "none"]

\* no call or run is in progress: the code is single-threaded
Quiescent == call.pc \in {"idle", "done"} /\ run.pc \in {"idle", "done"}

EnableIntegration(t) ==
    /\ Quiescent
    /\ enabled_integrations' = DictSet(enabled_integrations, t, TRUE)
    /\ last' = [op |-> "enable", t |-> t, pre |-> Dispatcher]
    /\ call' = NoCall /\ run' = NoRun
    /\ UNCHANGED <<execution_log, audit_file, world, impl>>

DisableIntegration(t) ==
    /\ Quiescent
    /\ enabled_integrations' = DictSet(enabled_integrations, t, FALSE)
    /\ last' = [op |-> "disable", t |-> t, pre |-> Dispatcher]
    /\ call' = NoCall /\ run' = NoRun
    /\ UNCHANGED <<execution_log, audit_file, world, impl>>

\* how many dispatches in a row the caller has made, this one included, and
\* the dispatcher as it was before the first of them
SeriesLength == IF last.op = "dispatch" THEN last.n + 1 ELSE 1
SeriesStart == IF last.op = "dispatch" THEN last.first ELSE Dispatcher

\* the call returned or raised: r is its outcome
Dispatched(t, params, r) ==
    /\ SetDispatcher(r.d)
    /\ last' = [op |-> "dispatch", t |-> t, params |-> params, kind |-> r.kind,
                value |-> r.value, exc |-> r.exc, msg |-> r.msg,
                handler |-> r.handler, pre |-> Dispatcher,
                n |-> SeriesLength, first |-> SeriesStart]

\* a caller's execute_ai_request(t, params)
Dispatch(t, params, env) ==
    /\ Quiescent
    /\ Len(execution_log) < MaxLog
    /\ SeriesLength <= MaxDispatches
    /\ Dispatched(t, params, execute_ai_request(t, params, Dispatcher, env))
    /\ call' = NoCall /\ run' = NoRun
    /\ UNCHANGED impl

\* a caller's _log_execution(t, params, result), as the logging test calls it;
\* a caller that holds the output of a finished run still holds it afterwards
LogExecution(t, params, result) ==
    /\ Quiescent
    /\ Len(execution_log) < MaxLog
    /\ SetDispatcher(_log_execution(t, params, result, Dispatcher))
    /\ last' = [op |-> "log", t |-> t, params |-> params, result |-> result,
                pre |-> Dispatcher]
    /\ call' = NoCall
    /\ run' = IF run.pc = "done" /\ run.result = "output" THEN run ELSE NoRun
    /\ UNCHANGED impl

\* a caller's get_execution_history(): the value returned is the dispatcher's
\* own list, not a copy of it
GetExecutionHistory ==
    /\ Quiescent
    /\ last' = [op |-> "history", value |-> "self.execution_log", pre |-> Dispatcher]
    /\ call' = NoCall /\ run' = NoRun
    /\ UNCHANGED <<enabled_integrations, execution_log, audit_file, world, impl>>

(***************************************************************************)
(* The model caller: call_model_with_integration (enhanced) and call_model *)
(* (base).  One Attempt step is one iteration of the retry loop.           *)
(***************************************************************************)
\* "enhanced" is EnhancedOrchestrator, "base" the Orchestrator subclass of
\* BaseOrchestrator, "bare" a BaseOrchestrator itself, whose phase list is empty
Impls == {"enhanced", "base", "bare"}

\* the except clause of the retry loop
CallerCatches(i) ==
    IF i = "enhanced" THEN {"Exception"} ELSE {"OSError", "JSONDecodeError"}

\* a backoff without the added second
WaitTime_no_offset(attempt) == 2 ^ attempt

\* wait_time = (2 ** attempt) + 1
WaitTime(attempt) == (2 ^ attempt) + 1

\* the default of the max_retries parameter
DefaultMaxRetries == 3

Responses ==
    { << <<"P1">> >>,
      << <<"P1">>, <<"FJ">>, <<"LB", "RQ1", "RB">>, <<"F">>, <<"P2">> >>,
      << <<"SP", "FJ">>, <<"LB", "KV", "RB">>, <<"F">> >> }

\* what one attempt meets: the model's text, or a failure of reading the system
\* prompt (OSError), of the request (APIConnectionError) or of decoding (JSONDecodeError)
FailureKinds == {"OSError", "JSONDecodeError", "APIConnectionError"}
AttemptOutcomes ==
    [kind : {"ok"}, text : Responses, exc : {None}]
    \cup [kind : {"fail"}, text : {<<>>}, exc : FailureKinds]

Verbatim(lines) == [k \in 1..Len(lines) |-> TextLine(lines[k])]

NoRet == [kind |-> "none", text |-> <<>>, exc |-> None]
RetText(lines) == [kind |-> "text", text |-> lines, exc |-> None]
\* the error string, which embeds str(e) of the exception e it was built from
RetErrorString(e) == [kind |-> "error_string", text |-> <<>>, exc |-> e]
RetNone == [kind |-> "None", text |-> <<>>, exc |-> None]
RetRaise(e) == [kind |-> "raise", text |-> <<>>, exc |-> e]

AttemptEvent(k, out) == [ev |-> "attempt", k |-> k, x |-> out]
SleepEvent(k, w) == [ev |-> "sleep", k |-> k, x |-> w]

\* for attempt in range(max_retries): nothing to do when the range is empty;
\* raw is the model's response as received, pre the dispatcher when the call began
NewCall(who, ei, n) ==
    [pc |-> IF n <= 0 THEN "done" ELSE "running", who |-> who,
     enable_integration |-> ei, suffix |-> ei, max_retries |-> n, attempt |-> 0,
     trace |-> <<>>, dispatched |-> 0, ret |-> IF n <= 0 THEN RetNone ELSE NoRet,
     raw |-> <<>>, pre |-> Dispatcher]

StartCall(i, ei, n) ==
    /\ Quiescent
    /\ i # "enhanced" => ~ei
    /\ impl' = i
    /\ call' = NewCall("direct", ei, n)
    /\ last' = NoLast /\ run' = NoRun
    /\ UNCHANGED <<enabled_integrations, execution_log, audit_file, world>>

\* the except branch of the loop, for a caught exception e
AfterFailure(c, e) ==
    LET c1 == [c EXCEPT !.trace = Append(@, AttemptEvent(c.attempt, e))]
        c2 == IF c.attempt < c.max_retries - 1
              THEN [c1 EXCEPT !.trace = Append(@, SleepEvent(c.attempt, WaitTime(c.attempt)))]
              ELSE c1
    IN  IF c.attempt = c.max_retries - 1
        THEN [c2 EXCEPT !.pc = "done", !.ret = RetErrorString(e)]
        ELSE [c2 EXCEPT !.attempt = @ + 1]

\* a caller that goes on to its next attempt after the scanner has run
ReturnProcessed_then_retries(p, raw) ==
    /\ SetDispatcher(p.d)
    /\ call' = [call EXCEPT !.pc = IF call.attempt = call.max_retries - 1
                                   THEN "done" ELSE "running",
                            !.attempt = @ + 1,
                            !.ret = RetText(p.lines),
                            !.dispatched = @ + p.dispatched, !.raw = raw,
                            !.trace = Append(@, AttemptEvent(call.attempt, "ok"))]

\* the attempt got a response and integration is on: p is what the scanner did
ReturnProcessed(p, raw) ==
    /\ SetDispatcher(p.d)
    /\ call' = [call EXCEPT !.pc = "done", !.ret = RetText(p.lines),
                            !.dispatched = @ + p.dispatched, !.raw = raw,
                            !.trace = Append(@, AttemptEvent(call.attempt, "ok"))]

Attempt(out, env) ==
    /\ call.pc = "running"
    /\ IF out.kind = "ok"
       THEN IF call.enable_integration
            THEN ReturnProcessed(_process_integration_requests(out.text, Dispatcher, env),
                                 out.text)
            ELSE /\ call' = [call EXCEPT !.pc = "done", !.ret = RetText(Verbatim(out.text)),
                                         !.raw = out.text,
                                         !.trace = Append(@, AttemptEvent(call.attempt, "ok"))]
                 /\ UNCHANGED <<enabled_integrations, execution_log, audit_file, world>>
       ELSE /\ call' = IF Catches(CallerCatches(impl), out.exc)
                       THEN AfterFailure(call, out.exc)
                       ELSE [call EXCEPT !.pc = "done", !.ret = RetRaise(out.exc),
                                         !.trace = Append(@, AttemptEvent(call.attempt, out.exc))]
            /\ UNCHANGED <<enabled_integrations, execution_log, audit_file, world>>
    /\ UNCHANGED <<last, impl, run>>

(***************************************************************************)
(* The phase loop: process_topic_enhanced (enhanced) and process_topic     *)
(* (base).                                                                 *)
(***************************************************************************)
EnhancedPhases ==
    << <<"Phase 0", "Ideation", TRUE>>, <<"Phase 1", "Research", TRUE>>,
       <<"Phase 2", "Design", TRUE>>, <<"Phase 3", "Development Plan", TRUE>>,
       <<"Phase 4", "Execution", TRUE>>, <<"Phase 5", "Review & Optimize", TRUE>>,
       <<"Phase 6", "Deploy & Integrate", TRUE>> >>

\* Orchestrator.phases; the base class takes no integration flag
BasePhases ==
    << <<"Phase 0", "Ideation", FALSE>>, <<"Phase 1", "Research", FALSE>>,
       <<"Phase 2", "Design", FALSE>>, <<"Phase 3", "Development Plan", FALSE>>,
       <<"Phase 4", "Execution", FALSE>>, <<"Phase 5", "Review & Optimize", FALSE>> >>

PhaseList(i) ==
    IF i = "bare" THEN <<>>
    ELSE SubSeq(IF i = "enhanced" THEN EnhancedPhases ELSE BasePhases, 1, MaxPhases)

\* the except clauses around the user template and around one phase
TemplateCatches(i) == IF i = "enhanced" THEN {"Exception"} ELSE {"OSError"}
PhaseCatches(i) == IF i = "enhanced" THEN {"Exception"} ELSE {"OSError"}

\* _load_template(name) and render: "ok", or the exception raised
TemplateOutcomes == {"ok", "TemplateNotFound", "TemplateSyntaxError"}

SuccessResult(ph, ret, pi) ==
    [code |-> ph[1], phase |-> ph[2], status |-> "success", response |-> ret,
     integration_enabled |-> pi]

FailedResult(ph, e) ==
    [code |-> ph[1], phase |-> ph[2], status |-> "failed", error |-> e]

\* f"{(successful_phases/len(self.phases)*100):.1f}%", in tenths of a percent
SuccessRate(successful, total) == ((2000 * successful) + total) \div (2 * total)

NoMetadata == [total_phases |-> 0, successful_phases |-> 0, success_rate |-> 0]

\* a metadata that counts every recorded phase as successful
Metadata_counts_all(r) ==
    [total_phases |-> Len(r.plist), successful_phases |-> Len(r.phases),
     success_rate |-> SuccessRate(Len(r.phases), Len(r.plist))]

\* outputs['metadata'] at the end of run r, success_rate in tenths of a percent
Metadata(r) ==
    [total_phases |-> Len(r.plist), successful_phases |-> r.successful_phases,
     success_rate |-> SuccessRate(r.successful_phases, Len(r.plist))]

\* the entries of the list that outputs['integration_log'] of run r names: a
\* list of its own that stays empty, or the dispatcher's list as it is now
IntegrationLog(r) ==
    IF r.integration_log.list = "self.execution_log" THEN execution_log ELSE <<>>

\* the run's local state: stage tells whether the user template was passed,
\* calls counts the model calls made, pre is the dispatcher when the run began
\* integration_log names the list held by outputs['integration_log']
NewRun(i, ei, stage, pc, result, exc) ==
    [pc |-> pc, stage |-> stage, enable_integration |-> ei, plist |-> PhaseList(i),
     idx |-> 1, phases |-> <<>>, successful_phases |-> 0, calls |-> 0,
     result |-> result, exc |-> exc, pre |-> Dispatcher, metadata |-> NoMetadata,
     integration_log |-> [list |-> IF i = "enhanced" THEN "outputs_own_list"
                                   ELSE "no_such_key"]]

StartRun(i, ei, tpl) ==
    /\ Quiescent
    /\ i # "enhanced" => ~ei
    /\ impl' = i
    /\ run' = IF tpl = "ok"
              THEN NewRun(i, ei, "loop", "phases", "none", None)
              ELSE IF Catches(TemplateCatches(i), tpl)
              THEN NewRun(i, ei, "template", "done", "null", None)
              ELSE NewRun(i, ei, "template", "done", "raise", tpl)
    /\ call' = NoCall /\ last' = NoLast
    /\ UNCHANGED <<enabled_integrations, execution_log, audit_file, world>>

\* a phase that goes by its own flag alone, whatever the run's flag
PhaseIntegration_phase_flag_only(enable_integration, integration_allowed) ==
    integration_allowed

\* phase_integration = enable_integration and integration_allowed
PhaseIntegration(enable_integration, integration_allowed) ==
    enable_integration /\ integration_allowed

\* the head of one loop iteration: render the task prompt, then call the model
BeginPhase(tpl) ==
    /\ run.pc = "phases"
    /\ run.idx <= Len(run.plist)
    /\ LET ph == run.plist[run.idx] IN
       IF tpl = "ok"
       THEN /\ run' = [run EXCEPT !.pc = "calling", !.calls = @ + 1]
            /\ call' = NewCall("run", PhaseIntegration(run.enable_integration, ph[3]),
                                    DefaultMaxRetries)
       ELSE /\ run' = IF Catches(PhaseCatches(impl), tpl)
                      THEN [run EXCEPT !.phases = Append(@, FailedResult(ph, tpl)),
                                       !.idx = @ + 1]
                      ELSE [run EXCEPT !.pc = "done", !.result = "raise", !.exc = tpl]
            /\ call' = NoCall
    /\ UNCHANGED <<enabled_integrations, execution_log, audit_file, world, last, impl>>

\* the rest of the iteration, once the model call has returned or raised
RecordPhase ==
    /\ run.pc = "calling"
    /\ call.pc = "done"
    /\ LET ph == run.plist[run.idx] IN
       run' = IF call.ret.kind # "raise"
              THEN [run EXCEPT !.pc = "phases", !.idx = @ + 1,
                               !.phases = Append(@, SuccessResult(ph, call.ret,
                                                       call.enable_integration)),
                               !.successful_phases = @ + 1]
              ELSE IF Catches(PhaseCatches(impl), call.ret.exc)
              THEN [run EXCEPT !.pc = "phases", !.idx = @ + 1,
                               !.phases = Append(@, FailedResult(ph, call.ret.exc))]
              ELSE [run EXCEPT !.pc = "done", !.result = "raise", !.exc = call.ret.exc]
    /\ call' = NoCall
    /\ UNCHANGED <<enabled_integrations, execution_log, audit_file, world, last, impl>>

\* after the loop: the metadata; integration_log is the dispatcher's own list
FinishRun ==
    /\ run.pc = "phases"
    /\ run.idx > Len(run.plist)
    /\ run' = IF Len(run.plist) = 0
              THEN [run EXCEPT !.pc = "done", !.result = "raise", !.exc = "ZeroDivisionError"]
              ELSE [run EXCEPT !.pc = "done", !.result = "output",
                               !.metadata = Metadata(run),
                               !.integration_log =
                                   IF impl = "enhanced"
                                   THEN [list |-> "self.execution_log"] ELSE @]
    /\ UNCHANGED <<enabled_integrations, execution_log, audit_file, world, last, impl, call>>

(***************************************************************************)
(* The specification of the dispatcher, the model caller and the runs.     *)
(***************************************************************************)
Init ==
    /\ enabled_integrations = _load_enabled_integrations
    /\ execution_log = <<>>
    /\ audit_file = <<>>
    /\ world = EmptyWorld
    /\ last = NoLast
    /\ impl = "enhanced"
    /\ call = NoCall
    /\ run = NoRun

Next ==
    \/ \E t \in PolicyInputs : EnableIntegration(t)
    \/ \E t \in PolicyInputs : DisableIntegration(t)
    \/ \E t \in TypeInputs, p \in ParamInputs, env \in EnvInputs : Dispatch(t, p, env)
    \/ LogExecution("test_operation", [param |-> "value"], [success |-> TRUE])
    \/ \E i \in Impls, ei \in BOOLEAN, n \in 0..MaxRetriesArg : StartCall(i, ei, n)
    \/ \E out \in AttemptOutcomes, env \in EnvInputs : Attempt(out, env)
    \/ \E i \in Impls, ei \in BOOLEAN, tpl \in TemplateOutcomes : StartRun(i, ei, tpl)
    \/ \E tpl \in TemplateOutcomes : BeginPhase(tpl)
    \/ RecordPhase
    \/ FinishRun

Spec == Init /\ [][Next]_vars

(***************************************************************************)
(* The specification of the dispatcher on its own: its public methods and  *)
(* _log_execution, called in any order on one SystemIntegrator.            *)
(***************************************************************************)
NextDispatcher ==
    \/ \E t \in PolicyInputs \cup {"environment_variables"} : EnableIntegration(t)
    \/ \E t \in PolicyInputs \cup {"environment_variables"} : DisableIntegration(t)
    \/ \E t \in TypeInputs, p \in ParamInputs, env \in EnvInputs : Dispatch(t, p, env)
    \/ \E ok \in BOOLEAN :
            LogExecution("test_operation", [param |-> "value"], [success |-> ok])
    \/ GetExecutionHistory

SpecDispatcher == Init /\ [][NextDispatcher]_vars

(***************************************************************************)
(* The specification of the scanner on its own: every text of at most      *)
(* MaxLines lines over LineShapes is given to _process_integration_requests*)
(* of an orchestrator whose dispatcher has one of ScanPolicies.            *)
(***************************************************************************)
LineShapes ==
    { <<"P1">>, <<"P2">>, <<"FJ">>, <<"SP", "FJ">>, <<"F">>,
      <<"LB", "RQ1", "RB">>, <<"LB", "RQ2", "RB">>, <<"LB", "KV", "RB">>,
      <<"NUM">> }

Texts == UNION {[1..n -> LineShapes] : n \in 1..MaxLines}

\* policies enable_integration/disable_integration lead to
ScanPolicies ==
    {_load_enabled_integrations,
     DictSet(_load_enabled_integrations, "file_system", FALSE)}

InitScan ==
    /\ enabled_integrations \in ScanPolicies
    /\ execution_log = <<>>
    /\ audit_file = <<>>
    /\ world = EmptyWorld
    /\ \E txt \in Texts : last = [op |-> "input", text |-> txt]
    /\ impl = "enhanced"
    /\ call = NoCall
    /\ run = NoRun

\* the scanner returned: p is what it did
Scanned(p) ==
    /\ SetDispatcher(p.d)
    /\ last' = [op |-> "scan", text |-> last.text, out |-> p.lines,
                results |-> p.results, dispatched |-> p.dispatched, pre |-> Dispatcher]

\* a caller's _process_integration_requests(text)
ScanText(env) ==
    /\ last.op = "input"
    /\ Scanned(_process_integration_requests(last.text, Dispatcher, env))
    /\ UNCHANGED <<impl, call, run>>

NextScan == \E env \in EnvInputs : ScanText(env)

SpecScan == InitScan /\ [][NextScan]_vars

(***************************************************************************)
(* The specification of the handlers called on their own, as the tests of  *)
(* SystemIntegrator call them, and of file_system requests made through    *)
(* the dispatcher on the files those calls leave.                          *)
(***************************************************************************)
Contents == {<<"h">>, <<"h", "i">>, <<"y", "o">>}

ChangeInputs ==
    {[append |-> <<"!">>],
     [replace |-> << << <<"h">>, <<"j">> >> >>, prepend |-> <<>>],
     [replace |-> << << <<"h">>, <<"j">> >> >>, append |-> <<"h">>, prepend |-> <<"h">>]}

FileParamInputs ==
    [operation : {"create_file"}, path : Paths, content : Contents]
    \cup [operation : {"modify_file"}, path : Paths, changes : ChangeInputs]
    \cup [operation : {"delete_file", "create_directory"}, path : Paths]
    \cup {[operation |-> "create_file", path |-> "app.py"], [operation |-> "rename"]}

CommandParamInputs ==
    {[command |-> <<"ls">>], [command |-> <<"ls">>, working_dir |-> "a/b"],
     [working_dir |-> "a/b"]}

\* the handler returned or raised: r is what it did, env.io whether the
\* files it used could be read and written
HandlerReturned(h, params, env, r) ==
    /\ Len(r.w.effects) <= MaxEffects
    /\ \A f \in Paths : Len(r.w.files[f]) <= MaxContent
    /\ world' = r.w
    /\ last' = [op |-> "handler", handler |-> h, params |-> params, kind |-> r.kind,
                value |-> IF r.kind = "return" THEN r.value ELSE <<>>,
                exc |-> IF r.kind = "raise" THEN r.exc ELSE None,
                msg |-> IF r.kind = "raise" THEN r.msg ELSE <<>>,
                io |-> env.io, pre |-> Dispatcher]
    /\ UNCHANGED <<enabled_integrations, execution_log, audit_file, impl, call, run>>

\* a caller's _handle_file_operations(params)
CallFileOperations(params, env) ==
    HandlerReturned("_handle_file_operations", params, env,
                    _handle_file_operations(params, world, env))

\* a caller's _handle_system_commands(params)
CallSystemCommands(params, env) ==
    HandlerReturned("_handle_system_commands", params, env,
                    _handle_system_commands(params, world, env))

NextHandlers ==
    \/ \E p \in FileParamInputs, env \in EnvInputs : CallFileOperations(p, env)
    \/ \E p \in CommandParamInputs, env \in EnvInputs : CallSystemCommands(p, env)
    \/ \E p \in FileParamInputs, env \in EnvInputs : Dispatch("file_system", p, env)

SpecHandlers == Init /\ [][NextHandlers]_vars

(***************************************************************************)
(* The specification of the environment-variable operations: they are      *)
(* called on their own, as test_environment_variable_operations does, and  *)
(* asked for through the dispatcher, on a working directory whose .env     *)
(* file is absent or holds some lines already.                             *)
(***************************************************************************)
EnvKeys == {<<"A">>, <<"B">>}

EnvFiles ==
    {[exists |-> FALSE, lines |-> <<>>],
     [exists |-> TRUE, lines |-> << <<"A", "=", "1">> >>],
     [exists |-> TRUE, lines |-> << <<"B", "=", "2">>, <<"A", "=", "1">> >>],
     [exists |-> TRUE, lines |-> << <<"#", " ", "c">>, <<"A", "=", "1">>, <<>> >>]}

EnvParamInputs ==
    [operation : {"set"}, key : EnvKeys,
     value : {<<"1">>, <<"2", " ">>, <<"x", "=", "y">>}]
    \cup [operation : {"get", "delete"}, key : EnvKeys]
    \cup {[operation |-> "set", key |-> <<"A">>], [operation |-> "unset"]}

InitEnv ==
    /\ enabled_integrations = _load_enabled_integrations
    /\ execution_log = <<>>
    /\ audit_file = <<>>
    /\ \E f \in EnvFiles : world = [EmptyWorld EXCEPT !.env_file = f]
    /\ last = NoLast
    /\ impl = "enhanced"
    /\ call = NoCall
    /\ run = NoRun

\* a caller's _handle_env_operations(params)
CallEnvOperations(params, env) ==
    HandlerReturned("_handle_env_operations", params, env,
                    _handle_env_operations(params, world, env))

NextEnv ==
    \/ \E p \in EnvParamInputs, env \in EnvInputs : CallEnvOperations(p, env)
    \/ \E p \in EnvParamInputs, env \in EnvInputs :
            Dispatch("environment_variables", p, env)

SpecEnv == InitEnv /\ [][NextEnv]_vars

(***************************************************************************)
(* validate_topic (src/utils.py).  A topic is a string held as the list of *)
(* its runs of characters: each run is n blanks or n other characters.     *)
(***************************************************************************)
MinTopicLength == 5
MaxTopicLength == 500

\* run lengths that put the length of a topic on either side of both limits
TopicInputs ==
    UNION {[1..k -> [ws : BOOLEAN, n : {1, 3, 4, 5, 494, 495, 496, 1000}]] : k \in 0..MaxRuns}

RECURSIVE TopicLen(_)
\* len(topic)
TopicLen(topic) == IF topic = <<>> THEN 0 ELSE Head(topic).n + TopicLen(Tail(topic))

RECURSIVE TopicLStrip(_)
TopicLStrip(topic) ==
    IF topic # <<>> /\ Head(topic).ws THEN TopicLStrip(Tail(topic)) ELSE topic

RECURSIVE TopicRStrip(_)
TopicRStrip(topic) ==
    IF topic # <<>> /\ topic[Len(topic)].ws
    THEN TopicRStrip(SubSeq(topic, 1, Len(topic) - 1)) ELSE topic

\* topic.strip()
TopicStrip(topic) == TopicRStrip(TopicLStrip(topic))

validate_topic_raw_length(topic) ==
    IF topic = <<>> \/ TopicStrip(topic) = <<>> THEN <<FALSE, "topic_empty">>
    ELSE IF TopicLen(topic) < MinTopicLength THEN <<FALSE, "topic_too_short">>
    ELSE IF TopicLen(topic) > MaxTopicLength THEN <<FALSE, "topic_too_long">>
    ELSE <<TRUE, TopicStrip(topic)>>

validate_topic(topic) ==
    LET stripped == TopicStrip(topic) IN
    IF topic = <<>> \/ TopicStrip(topic) = <<>> THEN <<FALSE, "topic_empty">>
    ELSE IF TopicLen(stripped) < MinTopicLength THEN <<FALSE, "topic_too_short">>
    ELSE IF TopicLen(stripped) > MaxTopicLength THEN <<FALSE, "topic_too_long">>
    ELSE <<TRUE, stripped>>

InitValidate ==
    /\ enabled_integrations = _load_enabled_integrations
    /\ execution_log = <<>>
    /\ audit_file = <<>>
    /\ world = EmptyWorld
    /\ \E topic \in TopicInputs : last = [op |-> "topic", topic |-> topic]
    /\ impl = "enhanced"
    /\ call = NoCall
    /\ run = NoRun

\* a caller's validate_topic(topic)
ValidateTopic ==
    /\ last.op = "topic"
    /\ last' = [op |-> "validate_topic", topic |-> last.topic,
                result |-> validate_topic(last.topic)]
    /\ UNCHANGED <<enabled_integrations, execution_log, audit_file, world, impl, call, run>>

SpecValidate == InitValidate /\ [][ValidateTopic]_vars

(***************************************************************************)
(* Properties of the dispatcher.                                           *)
(***************************************************************************)
\* the policy as the caller sees it: the type is present and set to true
EnabledIn(enabled, t) == t \in DOMAIN enabled /\ enabled[t] = TRUE

\* the entry a dispatch of last.t has to leave at the end of both logs
LoggedLast ==
    /\ Len(execution_log) = Len(last.pre.log) + 1
    /\ Len(audit_file) = Len(last.pre.audit) + 1
    /\ Last(execution_log).request_type = last.t
    /\ Last(execution_log).parameters = last.params
    /\ Last(audit_file).text = Last(execution_log)

\* C1: every call of the dispatcher, whether it succeeds, fails in the handler
\* or is rejected by the policy, appends exactly one entry to the in-memory
\* execution log and one line to the audit file.
C1_EveryDispatchLogged == last.op = "dispatch" => LoggedLast

\* C2: a dispatch of a type that is disabled or absent from the policy calls
\* no handler, has no file, process or network effect, and returns a result
\* whose success is false.
C2_DisabledTypeNotExecuted ==
    (last.op = "dispatch" /\ ~EnabledIn(last.pre.enabled, last.t)) =>
        /\ last.handler = None
        /\ last.kind = "return"
        /\ last.value.success = FALSE
        /\ world = last.pre.w
        /\ audit_file = last.pre.audit

\* a disabled type was dispatched with parameters its handler would accept
C2_Witness ==
    /\ last.op = "dispatch"
    /\ last.t = "file_system"
    /\ "file_system" \in DOMAIN last.pre.enabled
    /\ last.pre.enabled["file_system"] = FALSE
    /\ "path" \in DOMAIN last.params
    /\ last.value.success = FALSE

\* C3: the dispatcher never lets an exception reach its caller; a handler's
\* exception becomes a result with success false and is logged.
C3_DispatcherNeverRaises ==
    last.op = "dispatch" =>
        /\ last.kind = "return"
        /\ (last.handler # None /\ last.value.success = FALSE) => LoggedLast

(***************************************************************************)
(* Properties of the scanner, over SpecScan.                               *)
(***************************************************************************)
IsProse(line) == line \in {<<"P1">>, <<"P2">>}

IsRequestLine(line) ==
    Len(line) = 3 /\ line[1] = "LB" /\ line[2] \in RequestAtoms /\ line[3] = "RB"

\* prose, one well-formed request block at lines i..i+2, prose
SingleRequestText(text, i) ==
    /\ 1 < i /\ i + 2 < Len(text)
    /\ text[i] = <<"FJ">>
    /\ IsRequestLine(text[i + 1])
    /\ text[i + 2] = <<"F">>
    /\ \A k \in (1..Len(text)) \ {i, i + 1, i + 2} : IsProse(text[k])

\* out is text with the block at i..i+2 replaced by one outcome line, followed
\* by a summary of one item
BlockReplaced(text, out, i) ==
    /\ Len(out) = Len(text) + 1
    /\ \A k \in 1..(i - 1) : out[k] = TextLine(text[k])
    /\ out[i].t \in {"done", "error"}
    /\ \A k \in (i + 3)..Len(text) : out[k - 2] = TextLine(text[k])
    /\ out[Len(text) - 1] = TextLine(<<>>)
    /\ out[Len(text)] = SummaryHeader
    /\ out[Len(text) + 1].t = "item"
    /\ out[Len(text) + 1].n = 1

\* C4: for a response with exactly one well-formed request block among prose,
\* the scanner dispatches the request once and returns the prose verbatim and
\* in order, one outcome line in place of the block, and a one-item summary.
C4_SingleBlockReplaced ==
    last.op = "scan" =>
        \A i \in 1..Len(last.text) :
            SingleRequestText(last.text, i) =>
                /\ last.dispatched = 1
                /\ BlockReplaced(last.text, last.out, i)

\* a fenced json block, and nothing else, whose payload is no request
NonRequestBlock(text) ==
    /\ Len(text) >= 2
    /\ HasJsonFence(text[1])
    /\ text[Len(text)] = <<"F">>
    /\ \A k \in 2..(Len(text) - 1) : ~HasFence(text[k]) /\ ~IsRequestLine(text[k])

\* C5: a fenced json block that is not an integration request, because its
\* payload has no integration_request key or does not parse, is re-emitted
\* identical to the input, nothing is dispatched and no error line is added.
C5_NonRequestBlockVerbatim ==
    (last.op = "scan" /\ NonRequestBlock(last.text)) =>
        /\ last.out = Verbatim(last.text)
        /\ last.dispatched = 0

(***************************************************************************)
(* Properties of the model caller.                                         *)
(***************************************************************************)
IsAttempt(e) == e.ev = "attempt"
IsSleep(e) == e.ev = "sleep"
AttemptsOf(trace) == SelectSeq(trace, IsAttempt)
SleepsOf(trace) == SelectSeq(trace, IsSleep)

\* the failures the retry loop is specified for: reading the system prompt
\* and decoding the response, and for the enhanced caller any other as well
RetriedFailures(i) ==
    IF i = "enhanced" THEN FailureKinds ELSE {"OSError", "JSONDecodeError"}

EveryAttemptFailed(trace, i) ==
    \A j \in DOMAIN trace : IsAttempt(trace[j]) => trace[j].x \in RetriedFailures(i)

\* the attempts a, sleeps s and return of a call of n attempts that has met
\* nothing but failures
BackoffSchedule(c, a, s, n) ==
    /\ Len(a) <= n
    /\ \A k \in 1..Len(a) : a[k].k = k - 1
    /\ Len(s) = IF Len(a) = n THEN n - 1 ELSE Len(a)
    /\ \A k \in 1..Len(s) : s[k].k = k - 1 /\ s[k].x = (2 ^ (k - 1)) + 1
    /\ \A j \in DOMAIN c.trace :
          IsSleep(c.trace[j]) =>
              j > 1 /\ IsAttempt(c.trace[j - 1]) /\ c.trace[j - 1].k = c.trace[j].k
    /\ (c.pc = "done") <=> (Len(a) = n)
    /\ c.pc = "done" =>
          /\ IsAttempt(Last(c.trace))
          /\ c.ret.kind = "error_string"
          /\ c.ret.exc = a[n].x

C7_CallerAlwaysReturnsString ==
    call.pc = "done" =>
        /\ call.ret.kind \in {"text", "error_string"}
        /\ call.ret.kind = "text" => Last(call.trace) = AttemptEvent(call.attempt, "ok")

(***************************************************************************)
(* Properties of the phase loop.                                           *)
(***************************************************************************)
InRun == run.pc \in {"phases", "calling", "done"}

\* C8: an exception raised while a phase is processed is caught, the phase is
\* recorded as failed with the error text, and the later phases still run.
C8_FailedPhaseDoesNotAbort ==
    (InRun /\ run.stage = "loop") =>
        /\ run.result # "raise"
        /\ run.pc = "done" => Len(run.phases) = Len(run.plist)

\* C9: a phase whose model call fails on every attempt is recorded with
\* status failed and is not counted among the successful phases.
C9_ExhaustedCallIsFailedPhase ==
    InRun =>
        /\ \A k \in DOMAIN run.phases :
              run.phases[k].status = "success" =>
                  run.phases[k].response.kind # "error_string"
        /\ run.successful_phases =
              Cardinality({k \in DOMAIN run.phases :
                              /\ run.phases[k].status = "success"
                              /\ run.phases[k].response.kind = "text"})

\* C10: when the user-prompt template cannot be loaded or rendered the run
\* returns null, and no phase is executed, no model call made and no
\* integration request dispatched.
C10_TemplateFailureReturnsNull ==
    (InRun /\ run.stage = "template") =>
        /\ run.pc = "done"
        /\ run.result = "null"
        /\ run.phases = <<>>
        /\ run.calls = 0
        /\ Dispatcher = run.pre

\* the model call of the current phase has returned and is not yet recorded
PhaseCallDone == InRun /\ run.pc = "calling" /\ call.pc = "done"

HasRequestBlock(text) ==
    \E i \in 1..(Len(text) - 2) :
        text[i] = <<"FJ">> /\ IsRequestLine(text[i + 1]) /\ text[i + 2] = <<"F">>

\* C11: integration is active for a phase exactly when the run's flag and the
\* phase's integration_allowed flag are both true; when it is inactive the
\* prompt carries no integration suffix, the response is stored verbatim and
\* nothing is dispatched, whatever blocks the response contains.
C11_IntegrationOnlyWhenBothFlags ==
    /\ PhaseCallDone =>
          /\ call.enable_integration
                = (run.enable_integration /\ run.plist[run.idx][3])
          /\ call.suffix = call.enable_integration
          /\ (~call.enable_integration /\ call.ret.kind = "text") =>
                /\ call.ret.text = Verbatim(call.raw)
                /\ call.dispatched = 0
                /\ Dispatcher = call.pre
    /\ InRun =>
          \A k \in DOMAIN run.phases :
              run.phases[k].status = "success" =>
                  /\ run.phases[k].integration_enabled
                        = (run.enable_integration /\ run.plist[k][3])
                  /\ (~run.phases[k].integration_enabled
                        /\ run.phases[k].response.kind = "text") =>
                        \E r \in Responses : run.phases[k].response.text = Verbatim(r)

\* a phase without integration got a response that holds a request block
C11_Witness ==
    /\ PhaseCallDone
    /\ impl = "enhanced"
    /\ ~run.enable_integration
    /\ run.plist[run.idx][3]
    /\ call.ret.kind = "text"
    /\ HasRequestBlock(call.raw)
    /\ execution_log = call.pre.log

(***************************************************************************)
(* Properties of the audit trail.                                          *)
(***************************************************************************)
\* json.loads of one line of the audit file
Loads(line) == line.text

\* C12: starting from an empty audit file, after N dispatches on one
\* dispatcher, rejected and errored ones included, the audit file reads back
\* as exactly N records in dispatch order, record i equal to entry i of the
\* in-memory execution log.
C12_AuditRoundTrip ==
    (last.op = "dispatch" /\ last.first.audit = <<>>) =>
        /\ Len(audit_file) = last.n
        /\ Len(execution_log) = last.n
        /\ \A i \in 1..Len(audit_file) :
              audit_file[i].line = "json" /\ Loads(audit_file[i]) = execution_log[i]

(***************************************************************************)
(* Properties of the run output.                                           *)
(***************************************************************************)
Completed == InRun /\ run.pc = "done" /\ run.result = "output"

SuccessfulResults == {k \in DOMAIN run.phases : run.phases[k].status = "success"}

\* C13: a completed run over a phase list of length N reports total_phases =
\* N and 0 <= successful_phases <= N, holds exactly one phase result per
\* phase code, in phase order, and successful_phases is the number of phase
\* results whose status is success.
C13_RunOutputCounts ==
    Completed =>
        /\ run.metadata.total_phases = Len(run.plist)
        /\ run.metadata.successful_phases \in 0..Len(run.plist)
        /\ Len(run.phases) = Len(run.plist)
        /\ \A k \in DOMAIN run.phases : run.phases[k].code = run.plist[k][1]
        /\ run.metadata.successful_phases = Cardinality(SuccessfulResults)

\* a completed run with one phase failed and another successful
C13_Witness ==
    /\ Completed
    /\ Cardinality(SuccessfulResults) = 1
    /\ \E k \in DOMAIN run.phases : run.phases[k].status = "failed"

\* t tenths of a percent is s / n * 100 rounded to one decimal place
IsRoundedRate(t, s, n) ==
    /\ (2 * n * t) - (2000 * s) <= n
    /\ (2000 * s) - (2 * n * t) <= n

\* C14: the success rate of a run is successful_phases / total_phases * 100
\* rounded to one decimal place; a run over an empty phase list does not
\* divide by zero and reports 0.0%.
C14_SuccessRate ==
    (InRun /\ run.stage = "loop" /\ run.pc = "done" /\ run.idx > Len(run.plist)) =>
        /\ run.result = "output"
        /\ IF Len(run.plist) = 0
           THEN run.metadata.success_rate = 0
           ELSE IsRoundedRate(run.metadata.success_rate,
                              run.metadata.successful_phases, Len(run.plist))

(***************************************************************************)
(* Properties of the scanner's summary, over SpecScan.                     *)
(***************************************************************************)
IsItem(line) == line.t = "item"

\* the type of the request a collected payload holds, if it holds one
PayloadType(parsed) ==
    IF parsed.ok /\ parsed.type = "dict" /\ parsed.member \in RequestAtoms
    THEN <<RequestOf(parsed.member).type>> ELSE <<>>

RECURSIVE RequestTypes(_, _)
\* the types of the request blocks of a text from line i on, in textual order
RequestTypes(text, i) ==
    IF i > Len(text) THEN <<>>
    ELSE IF HasJsonFence(text[i]) /\ i + 1 <= Len(text)
    THEN PayloadType(json_loads(Strip(CollectPayload(text, i + 1, <<>>).json_content)))
         \o RequestTypes(text, CollectPayload(text, i + 1, <<>>).i + 1)
    ELSE RequestTypes(text, i + 1)

\* out ends in a summary of the requests of the given types, with the results
SummaryMatches(out, items, results, types) ==
    /\ (\E k \in DOMAIN out : out[k] = SummaryHeader) <=> (Len(types) >= 1)
    /\ Len(items) = Len(types)
    /\ \A k \in 1..Len(items) :
          /\ items[k].n = k
          /\ items[k].ok = results[k].success
          /\ \E j \in DOMAIN items[k].msg : items[k].msg[j] = types[k]

\* C15: a summary section is appended exactly when at least one request was
\* dispatched; it has one item per dispatched request, in the textual order
\* of the request blocks, each item giving the request's type and a marker
\* that agrees with the success flag of the request's result.
C15_SummaryPerDispatch ==
    last.op = "scan" =>
        /\ last.dispatched = Len(RequestTypes(last.text, 1))
        /\ SummaryMatches(last.out, SelectSeq(last.out, IsItem), last.results,
                          RequestTypes(last.text, 1))

(***************************************************************************)
(* Properties of routing.                                                  *)
(***************************************************************************)
\* the result of the last dispatch is an error of the given kind
ErrorKind(kind) ==
    /\ last.kind = "return"
    /\ "error" \in DOMAIN last.value
    /\ last.value.error[1] = kind

\* C16: a dispatch of a type that is none of the 8 routable names produces
\* the "unknown handler" error, which differs from the "not enabled" result
\* of a known type that has been disabled.
C16_UnknownTypeIsUnknownHandler ==
    last.op = "dispatch" =>
        /\ last.t \notin KnownTypes => ErrorKind("unknown_handler")
        /\ (last.t \in KnownTypes /\ ~EnabledIn(last.pre.enabled, last.t)) =>
              ErrorKind("not_enabled")

\* C17: each of the 8 request types, when enabled, is routed to its own
\* existing handler and to no other; a git_operations request reaches a
\* version-control handler, and routing one type does not depend on the
\* handlers of the other types.
C17_RoutedToOwnHandler ==
    (last.op = "dispatch" /\ last.t \in KnownTypes
        /\ EnabledIn(last.pre.enabled, last.t)) =>
        /\ last.handler = HandlerFor(last.t)
        /\ last.handler \in DefinedHandlers
        /\ ~(last.kind = "raise" /\ last.exc = "AttributeError")

(***************************************************************************)
(* Properties of file-system and system-command requests.                  *)
(***************************************************************************)
\* the last dispatch was an enabled file_system request of the given operation
FileRequest(operation) ==
    /\ last.op = "dispatch"
    /\ last.t = "file_system"
    /\ EnabledIn(last.pre.enabled, "file_system")
    /\ "operation" \in DOMAIN last.params
    /\ last.params.operation = operation
    /\ "path" \in DOMAIN last.params

\* C18: a file_system/create_file request for "a/b/c.txt", whose parent
\* directories do not exist yet, with content c creates the directories and
\* a file that reads back as c and returns success = true; a repeated request
\* with content c' leaves the file holding c'.
C18_CreateFileRequest ==
    (FileRequest("create_file") /\ last.params.path = "a/b/c.txt"
        /\ "content" \in DOMAIN last.params) =>
        /\ last.kind = "return"
        /\ last.value.success \/ ErrorKind("create_failed")
        /\ last.value.success =>
              /\ world.files["a/b/c.txt"] = last.params.content
              /\ {"a", "a/b"} \subseteq world.dirs

\* C19: a file_system/modify_file request against a path that does not exist
\* fails as not found: the dispatch returns success = false, a log entry with
\* success = false is recorded, and the filesystem is unchanged.
C19_ModifyMissingFile ==
    (FileRequest("modify_file") /\ ~Exists(last.pre.w, last.params.path)) =>
        /\ last.kind = "return"
        /\ last.value.success = FALSE
        /\ LoggedLast
        /\ Last(execution_log).result.success = FALSE
        /\ world = last.pre.w

\* the last call ran a command through _handle_system_commands
CommandRun ==
    /\ last.op = "handler"
    /\ last.handler = "_handle_system_commands"
    /\ "command" \in DOMAIN last.params
    /\ Len(world.effects) = Len(last.pre.w.effects) + 1

\* C20: a system_commands request returns a result that carries the captured
\* stdout, stderr and return code and whose success is true exactly when the
\* return code is 0; a command that exits non-zero yields success = false
\* with that return code.
C20_CommandResult ==
    CommandRun =>
        /\ last.kind = "return"
        /\ {"stdout", "stderr", "return_code"} \subseteq DOMAIN last.value
        /\ last.value.success = (last.value.return_code = 0)

(***************************************************************************)
(* Properties of the environment-variable file.                            *)
(***************************************************************************)
\* the last call was an environment_variables set or delete of a key, asked
\* for through the dispatcher or made on the handler
EnvChange(operation) ==
    /\ last.op \in {"dispatch", "handler"}
    /\ last.op = "dispatch" => last.t = "environment_variables"
    /\ last.op = "handler" => last.handler = "_handle_env_operations"
    /\ "operation" \in DOMAIN last.params
    /\ last.params.operation = operation
    /\ "key" \in DOMAIN last.params
    /\ operation = "set" => "value" \in DOMAIN last.params

IsKvLine(line) == Contains(line, "=") /\ ~StartsWith(line, <<"#">>)

KeyOf(line) == SplitEq(line)[1]

\* a file of KEY=VALUE lines, one per key
MapFile(lines) ==
    /\ \A i \in DOMAIN lines : IsKvLine(lines[i])
    /\ \A i, j \in DOMAIN lines : KeyOf(lines[i]) = KeyOf(lines[j]) => i = j

\* the lines of the keys other than k are the same lines in both files
SameOtherLines(pre, post, k) ==
    /\ \A i \in DOMAIN pre : KeyOf(pre[i]) # k => \E j \in DOMAIN post : post[j] = pre[i]
    /\ \A j \in DOMAIN post : KeyOf(post[j]) # k => \E i \in DOMAIN pre : pre[i] = post[j]

\* the file was readable and writable
EnvFileUsable == last.kind = "raise" => last.exc # "OSError"

\* C21: the .env file is a key-to-value map under set and delete: after a set
\* or delete request of key k on a file of KEY=VALUE lines the file is again
\* such a file, the lines of the other keys are unchanged, and the file holds
\* exactly the line k=v after set(k, v) and no line of k after delete(k).
C21_EnvFileIsMap ==
    \A operation \in {"set", "delete"} :
        (EnvChange(operation) /\ MapFile(last.pre.w.env_file.lines) /\ EnvFileUsable) =>
            /\ MapFile(world.env_file.lines)
            /\ SameOtherLines(last.pre.w.env_file.lines, world.env_file.lines,
                              last.params.key)
            /\ operation = "set" =>
                  \E j \in DOMAIN world.env_file.lines :
                      world.env_file.lines[j] = KvLine(last.params.key, last.params.value)
            /\ operation = "delete" =>
                  \A j \in DOMAIN world.env_file.lines :
                      KeyOf(world.env_file.lines[j]) # last.params.key

\* the same for calls made on the handler itself
C21_HandlerLevel == last.op = "handler" => C21_EnvFileIsMap

\* the same for calls on the handler with values that have no blank at an end
C21_HandlerPlainValues ==
    (last.op = "handler" /\ \A i \in DOMAIN last.pre.w.env_file.lines :
                                StrStrip(last.pre.w.env_file.lines[i]) = last.pre.w.env_file.lines[i])
        => C21_EnvFileIsMap

(***************************************************************************)
(* Properties of validate_topic.                                           *)
(***************************************************************************)
\* the number of characters of the topic between its first and its last
\* character that is no blank, both included
StrippedLength(topic) ==
    LET solid == {i \in DOMAIN topic : ~topic[i].ws} IN
    IF solid = {} THEN 0
    ELSE TopicLen(SubSeq(topic, CHOOSE i \in solid : \A j \in solid : i <= j,
                                CHOOSE i \in solid : \A j \in solid : j <= i))

\* C22: validate_topic(t) returns (False, message) when t is empty or all
\* blanks, when the stripped t has fewer than 5 characters and when it has
\* more than 500; for every other t it returns (True, stripped t).
C22_ValidateTopic ==
    last.op = "validate_topic" =>
        IF StrippedLength(last.topic) < 5 \/ StrippedLength(last.topic) > 500
        THEN last.result[1] = FALSE /\ last.result[2] \in STRING
        ELSE last.result = <<TRUE, TopicStrip(last.topic)>>

\* a topic with blanks around exactly 500 characters was accepted and
\* returned stripped
C22_Witness ==
    /\ last.op = "validate_topic"
    /\ last.topic # TopicStrip(last.topic)
    /\ StrippedLength(last.topic) = 500
    /\ last.result = <<TRUE, TopicStrip(last.topic)>>

(***************************************************************************)
(* Properties of the scanner on blocks that are not closed, over SpecScan. *)
(***************************************************************************)
\* prose, then a json fence at line i that no later line closes
UnterminatedBlock(text, i) ==
    /\ i \in 1..Len(text)
    /\ HasJsonFence(text[i])
    /\ \A k \in 1..(i - 1) : IsProse(text[k])
    /\ \A k \in (i + 1)..Len(text) : ~HasFence(text[k])

\* the payload of the block opened at line i is one well-formed request
RequestPayload(text, i) == Len(text) = i + 1 /\ IsRequestLine(text[i + 1])

\* out is the text with every line as it was
Unmodified(text, out) ==
    /\ Len(out) = Len(text)
    /\ \A k \in 1..Len(text) : out[k] = TextLine(text[k])

\* out is the prose before line i, then one outcome line, then at most a summary
OutcomeInPlace(text, out, i) ==
    /\ Len(out) >= i
    /\ \A k \in 1..(i - 1) : out[k] = TextLine(text[k])
    /\ out[i].t \in {"done", "error"}
    /\ \A k \in (i + 1)..Len(out) : out[k].t \in {"text", "summary", "item"}
    /\ \A k \in (i + 1)..Len(out) : out[k].t = "text" => out[k] = TextLine(<<>>)

\* C23: a json block whose closing fence is never found takes the rest of the
\* text as its payload: a payload that is a well-formed request is dispatched
\* once and replaced by one outcome line, any other payload leaves the text
\* unmodified and dispatches nothing.
C23_UnterminatedBlock ==
    last.op = "scan" =>
        \A i \in 1..Len(last.text) :
            UnterminatedBlock(last.text, i) =>
                IF RequestPayload(last.text, i)
                THEN last.dispatched = 1 /\ OutcomeInPlace(last.text, last.out, i)
                ELSE last.dispatched = 0 /\ Unmodified(last.text, last.out)

\* the part of C23 about a payload that is a request
C23_RequestPayloadDispatched ==
    last.op = "scan" =>
        \A i \in 1..Len(last.text) :
            (UnterminatedBlock(last.text, i) /\ RequestPayload(last.text, i)) =>
                last.dispatched = 1 /\ OutcomeInPlace(last.text, last.out, i)

(***************************************************************************)
(* Properties of the outcome line, over SpecScan.                          *)
(***************************************************************************)
\* the lines of out that replace a dispatched block
OutcomeLines(out) == {k \in DOMAIN out : out[k].t \in {"done", "error"}}

\* line is marked a success and shows the message of result, or is marked a
\* failure and shows its error
ReflectsResult(line, result) ==
    IF result.success
    THEN line.t = "done" /\ "message" \in DOMAIN result /\ line.msg = result.message
    ELSE line.t = "error" /\ "error" \in DOMAIN result /\ line.msg = result.error

\* the text holds one json block, whose request was dispatched and gave a result
OneResult(text, dispatched, results) ==
    /\ Cardinality({k \in DOMAIN text : HasJsonFence(text[k])}) = 1
    /\ dispatched = 1
    /\ Len(results) = 1

\* C24: the one outcome line that replaces a dispatched request block is marked
\* a success and shows result.message when result.success is true, and is
\* marked a failure and shows result.error when result.success is false.
C24_OutcomeLineReflectsResult ==
    (last.op = "scan" /\ OneResult(last.text, last.dispatched, last.results)) =>
        /\ Cardinality(OutcomeLines(last.out)) = 1
        /\ \A k \in OutcomeLines(last.out) : ReflectsResult(last.out[k], last.results[1])

\* the outcome line does show the text the claim names
C24_OutcomeLineShowsText ==
    (last.op = "scan" /\ OneResult(last.text, last.dispatched, last.results)) =>
        /\ Cardinality(OutcomeLines(last.out)) = 1
        /\ \A k \in OutcomeLines(last.out) :
              last.out[k].msg = IF last.results[1].success THEN last.results[1].message
                                ELSE last.results[1].error

(***************************************************************************)
(* Properties of the execution log and of the policy, over SpecDispatcher. *)
(***************************************************************************)
IsPrefix(a, b) == Len(a) <= Len(b) /\ SubSeq(b, 1, Len(a)) = a

\* C25: the execution log is append-only: every step of the dispatcher (a
\* dispatch, an enable, a disable, a history read, a model call or a run that
\* dispatches) leaves the entries already in the log in place and unchanged,
\* and logging one execution adds exactly one entry, last, that carries the
\* given request_type, parameters and result.
C25_LogAppendOnly ==
    [][/\ IsPrefix(execution_log, execution_log')
       /\ last'.op = "log" =>
             execution_log' = Append(execution_log,
                                     LogEntry(last'.t, last'.params, last'.result))
       /\ last'.op \in {"enable", "disable", "history"} => execution_log' = execution_log]_vars

\* an execution was logged after another entry, which is still in its place;
\* the log was then read
C25_Witness ==
    /\ last.op = "history"
    /\ Len(execution_log) = 2
    /\ execution_log[2] = LogEntry("test_operation", [param |-> "value"], [success |-> TRUE])
    /\ execution_log[1] = LogEntry("test_operation", [param |-> "value"], [success |-> FALSE])

\* the request types the policy is built with
EightRequestTypes ==
    {"file_system", "git_operations", "package_management", "database_operations",
     "api_calls", "deployment", "system_commands", "environment_variables"}

\* policy after is policy before with the entry of t, and only it, set to v
OnlyEntrySet(before, after, t, v) ==
    /\ DOMAIN after = DOMAIN before \cup {t}
    /\ after[t] = v
    /\ \A k \in DOMAIN before : k # t => after[k] = before[k]

\* C26: the policy maps all 8 request types to true at construction; enable(t)
\* and disable(t) set the entry of t to true and to false whatever it was, change
\* no other entry and leave the execution log unchanged; a dispatch, whatever
\* its outcome, a logging and a history read leave the policy unchanged.
C26_PolicyFrame ==
    /\ last.op = "none" =>
          /\ DOMAIN enabled_integrations = EightRequestTypes
          /\ \A t \in EightRequestTypes : enabled_integrations[t] = TRUE
    /\ last.op \in {"enable", "disable"} =>
          /\ OnlyEntrySet(last.pre.enabled, enabled_integrations, last.t, last.op = "enable")
          /\ execution_log = last.pre.log
    /\ last.op \in {"dispatch", "log", "history"} =>
          enabled_integrations = last.pre.enabled

\* a type that was already disabled was disabled again, with other types
\* enabled and an entry in the log
C26_Witness ==
    /\ last.op = "disable"
    /\ last.t = "file_system"
    /\ last.pre.enabled["file_system"] = FALSE
    /\ "quantum_ops" \in DOMAIN enabled_integrations
    /\ enabled_integrations["quantum_ops"] = TRUE
    /\ Len(execution_log) > 0

\* a dispatch that raised was made under a policy with a type disabled
C26_WitnessDispatch ==
    /\ last.op = "dispatch"
    /\ last.kind = "raise"
    /\ enabled_integrations["environment_variables"] = FALSE

(***************************************************************************)
(* Properties of file requests, over SpecHandlers.                         *)
(***************************************************************************)
\* the last call was a file_system request of the given operation on a path,
\* asked for through the dispatcher or made on the handler
FileCall(operation) ==
    /\ last.op \in {"dispatch", "handler"}
    /\ last.op = "dispatch" => last.t = "file_system"
    /\ last.op = "handler" => last.handler = "_handle_file_operations"
    /\ "operation" \in DOMAIN last.params
    /\ last.params.operation = operation
    /\ "path" \in DOMAIN last.params

\* no read or write of the call failed
FilesUsable == last.kind = "raise" => last.exc # "OSError"

Directive(changes, name) == IF name \in DOMAIN changes THEN changes[name] ELSE <<>>

\* prepend + (content with the substitutions of the replace map) + append
Modified(content, changes) ==
    Directive(changes, "prepend")
        \o ApplyReplaceMap(content, Directive(changes, "replace"), 1)
        \o Directive(changes, "append")

\* C27: a modify_file request on an existing file leaves it holding prepend +
\* (old content with every replace-map substitution applied) + append, an
\* absent directive counting as empty, and returns success.
C27_ModifyOrder ==
    (FileCall("modify_file") /\ "changes" \in DOMAIN last.params
        /\ Exists(last.pre.w, last.params.path) /\ FilesUsable) =>
            /\ last.kind = "return"
            /\ last.value.success
            /\ world.files[last.params.path] =
                  Modified(last.pre.w.files[last.params.path], last.params.changes)

\* the same for calls made on the handler itself
C27_HandlerLevel == last.op = "handler" => C27_ModifyOrder

\* a call on the handler applied all three directives to a file holding "h"
C27_HandlerWitness ==
    /\ FileCall("modify_file")
    /\ last.op = "handler"
    /\ "changes" \in DOMAIN last.params
    /\ DOMAIN last.params.changes = {"replace", "append", "prepend"}
    /\ last.kind = "return"
    /\ world.files[last.params.path] = <<"h", "j", "h">>

\* the files a call on the handler used could be read and written
HandlerFilesUsable == last.op = "handler" => last.io = "ok"

\* C30: a file_system/create_file request whose path has no directory part,
\* such as "app.py", and names no existing directory returns success = true
\* and leaves the file holding the given content.
C30_CreateFileInWorkingDirectory ==
    (FileCall("create_file") /\ last.params.path = "app.py"
        /\ "content" \in DOMAIN last.params /\ HandlerFilesUsable
        /\ "app.py" \notin last.pre.w.dirs) =>
            /\ last.kind = "return"
            /\ last.value.success
            /\ world.files["app.py"] = last.params.content

\* the same for calls made on the handler itself
C30_HandlerLevel == last.op = "handler" => C30_CreateFileInWorkingDirectory

\* the same request for a path with a directory part does succeed on the handler
C30_WithDirectoryOnHandler ==
    (FileCall("create_file") /\ last.op = "handler" /\ last.params.path = "a/b/c.txt"
        /\ "content" \in DOMAIN last.params /\ HandlerFilesUsable
        /\ "a/b/c.txt" \notin last.pre.w.dirs) =>
            /\ last.kind = "return"
            /\ last.value.success
            /\ world.files["a/b/c.txt"] = last.params.content

(***************************************************************************)
(* Properties of the dispatches of one model call, over Spec.              *)
(***************************************************************************)
\* a call of call_model_with_integration with integration enabled is on its
\* way or has ended
IntegrationCall ==
    call.pc \in {"running", "done"} /\ call.who \in {"direct", "phase"}
        /\ call.enable_integration

SuccessfulAttempts(trace) ==
    {j \in DOMAIN trace : IsAttempt(trace[j]) /\ trace[j].x = "ok"}

RequestBlocks(text) == {i \in DOMAIN text : IsRequestLine(text[i])}

\* C28: within one call of call_model_with_integration with integration
\* enabled, as long as every attempt has failed nothing has been dispatched
\* and the dispatcher is as it was when the call began; once a request has
\* been dispatched the call has ended, its one successful attempt is its last,
\* and no more requests were dispatched than its response holds request blocks.
C28_DispatchOnlyFromSuccessfulAttempt ==
    IntegrationCall =>
        /\ SuccessfulAttempts(call.trace) = {} =>
              call.dispatched = 0 /\ Dispatcher = call.pre
        /\ call.dispatched > 0 =>
              /\ call.pc = "done"
              /\ SuccessfulAttempts(call.trace) = {Len(call.trace)}
              /\ call.dispatched <= Cardinality(RequestBlocks(call.raw))

\* a call dispatched a request from the response of its third attempt, after
\* two failed attempts
C28_Witness ==
    /\ IntegrationCall
    /\ call.dispatched = 1
    /\ Len(AttemptsOf(call.trace)) = 3
    /\ call.pc = "done"

(***************************************************************************)
(* Properties of the integration log of a run output, over Spec.           *)
(***************************************************************************)
\* a run of the enhanced orchestrator has returned its output
RunReturned == impl = "enhanced" /\ run.pc = "done" /\ run.result = "output"

\* the entries logged since the dispatcher was d
LoggedSince(d) == SubSeq(execution_log, Len(d.log) + 1, Len(execution_log))

\* C29: the integration_log of a run output holds, when the run returns it,
\* exactly the entries logged during that run, in order, and not those the
\* log held when the run began; an output that has been returned is not
\* changed by what is logged later.
C29_IntegrationLogOfRun ==
    [][/\ (~RunReturned /\ RunReturned') => IntegrationLog(run)' = LoggedSince(run.pre)'
       /\ (RunReturned /\ run' = run) => IntegrationLog(run)' = IntegrationLog(run)]_vars

\* the part of C29 about the moment the run returns
C29_OnReturn ==
    [][(~RunReturned /\ RunReturned') => IntegrationLog(run)' = LoggedSince(run.pre)']_vars

\* the part of C29 about the time after the run has returned
C29_AfterReturn ==
    [][(RunReturned /\ run' = run) => IntegrationLog(run)' = IntegrationLog(run)]_vars
====
